---- MODULE Spec2Model ----
(***************************************************************************)
(* Model of the two patch scripts fix_abo_videos.py and                    *)
(* fix_abo_videos_part2.py and of the TypeScript they install in           *)
(* campaign-orchestrator.service.ts: the ad creation strategy detection,   *)
(* the branch chain, and the ABO multiple-video-ads loop.                  *)
(***************************************************************************)
EXTENDS Integers, Sequences, FiniteSets, TLC

(* ------------------------------ bounds --------------------------------- *)
MaxVideos == 3
MaxImages == 2
MaxChunks == 3

(* ------------------------------ values --------------------------------- *)
Null == <<"null", 0>>
VideoId(i) == <<"V", i>>
ImageId(i) == <<"I", i>>
ThumbId(i) == <<"T", i>>
GoneId(i) == <<"gone", i>>

\* the media rows that exist in the store: the videos, the images and the
\* linked thumbnails; GoneId(i) is a thumbnailMediaId whose row does not exist
MediaIds ==
  {VideoId(i) : i \in 1..MaxVideos} \cup {ImageId(i) : i \in 1..MaxImages}
    \cup {ThumbId(i) : i \in 1..MaxVideos}

VideoRow(i, link) == [id |-> VideoId(i), thumbnailMediaId |-> link]
LinkChoices(i) == {Null, ThumbId(i), GoneId(i)}

RECURSIVE VideoLists(_)
VideoLists(n) ==
  IF n = 0 THEN {<<>>}
  ELSE {Append(vs, VideoRow(n, l)) : vs \in VideoLists(n - 1), l \in LinkChoices(n)}

ImageList(n) == [i \in 1..n |-> ImageId(i)]

VARIABLES
  isCBO, useVideo, videos, images, uploadedImageHashes,
  media,
  pc, strategy, idx,
  uploadedVideoId, thumbnailImage, thumbHash, videoCreative, videoAd,
  createdAds, creative, ad, error,
  metaVideos, metaImages, metaCreatives, metaAds,
  log,
  linesep, fileEol, content, orig, ran, applied

inputVars == <<isCBO, useVideo, videos, images, uploadedImageHashes>>
localVars == <<uploadedVideoId, thumbnailImage, thumbHash, videoCreative, videoAd>>
metaVars == <<metaVideos, metaImages, metaCreatives, metaAds>>
resultVars == <<createdAds, creative, ad, error>>
requestVars ==
  <<inputVars, media, pc, strategy, idx, localVars, resultVars, metaVars, log>>
patchVars == <<linesep, fileEol, content, orig, ran, applied>>
vars == <<requestVars, patchVars>>

(* ----------------------- strategy detection ---------------------------- *)
\* uploadedImageHashes is declared outside the patched text: one hash per
\* uploaded image when the campaign uses images, nothing uploaded otherwise
UploadedImageHashesChoices(uv, imgs) ==
  IF uv
    THEN {[defined |-> FALSE, hashes |-> <<>>], [defined |-> TRUE, hashes |-> <<>>]}
    ELSE {[defined |-> TRUE, hashes |-> imgs]}

hasMultipleImages ==
  ~useVideo /\ uploadedImageHashes.defined /\ Len(uploadedImageHashes.hashes) > 1

hasMultipleVideos == useVideo /\ Len(videos) > 1

useCarousel == isCBO /\ hasMultipleImages

\* mutant: the budget mode is not consulted
useMultipleAds_anyBudget == hasMultipleImages \/ hasMultipleVideos

useMultipleAds == ~isCBO /\ (hasMultipleImages \/ hasMultipleVideos)

\* mutant: the condition as it was before the patch
SingleVideoBranch_unpatched == useVideo

SingleVideoBranch == useVideo /\ ~hasMultipleVideos

CarouselBranch == useCarousel

MultiImageBranch == useMultipleAds /\ hasMultipleImages

MultiVideoBranch == useMultipleAds /\ hasMultipleVideos

\* the if / else if chain, first match wins
ChosenStrategy ==
  IF SingleVideoBranch THEN "SingleVideo"
  ELSE IF CarouselBranch THEN "Carousel"
  ELSE IF MultiImageBranch THEN "MultiImageAds"
  ELSE IF MultiVideoBranch THEN "MultiVideoAds"
  ELSE "SingleImage"

(* --------------------------- the request ------------------------------- *)
NoFile == <<>>

PatchIdle ==
  /\ linesep = "lf" /\ fileEol = "lf"
  /\ content = NoFile /\ orig = NoFile
  /\ ran = {} /\ applied = [k \in {"detection", "single_video", "section"} |-> 0]

RequestInputs ==
  /\ isCBO \in BOOLEAN
  /\ useVideo \in BOOLEAN
  /\ videos \in UNION {VideoLists(n) : n \in 0..MaxVideos}
  /\ images \in {ImageList(n) : n \in 0..MaxImages}
  /\ uploadedImageHashes \in UploadedImageHashesChoices(useVideo, images)

\* createdAds is declared before the branch chain and only the branch taken fills it
InitialCreatedAds == <<>>

RequestStart ==
  /\ media = [m \in MediaIds |-> [usedInMeta |-> FALSE, metaHash |-> Null]]
  /\ pc = "select" /\ strategy = "none" /\ idx = 0
  /\ uploadedVideoId = Null /\ thumbnailImage = Null /\ thumbHash = Null
  /\ videoCreative = Null /\ videoAd = Null
  /\ createdAds = InitialCreatedAds /\ creative = Null /\ ad = Null /\ error = Null
  /\ metaVideos = <<>> /\ metaImages = <<>> /\ metaCreatives = <<>> /\ metaAds = <<>>
  /\ log = <<>>

Init == RequestInputs /\ RequestStart /\ PatchIdle

\* the statements of one loop iteration, in program order
LoopSteps ==
  <<"fetchVideo", "uploadVideo", "markVideoUsed", "resolveThumbnail",
    "fetchThumbnail", "uploadThumbnail", "markThumbnailUsed",
    "createAdCreative", "createAd", "push">>

StepIn(order, p) ==
  LET k == CHOOSE i \in 1..Len(order) : order[i] = p
  IN  order[k + 1]

\* mutant: the thumbnail is resolved before the video row is marked used
StepAfter_resolveBeforeMark(p) ==
  StepIn(<<"fetchVideo", "uploadVideo", "resolveThumbnail", "markVideoUsed",
           "fetchThumbnail", "uploadThumbnail", "markThumbnailUsed",
           "createAdCreative", "createAd", "push">>, p)

\* mutant: the thumbnail is uploaded before the video
StepAfter_thumbnailFirst(p) ==
  StepIn(<<"resolveThumbnail", "fetchThumbnail", "uploadThumbnail",
           "markThumbnailUsed", "fetchVideo", "uploadVideo", "markVideoUsed",
           "createAdCreative", "createAd", "push">>, p)

StepAfter(p) == StepIn(LoopSteps, p)

\* for (let idx = 0; idx < videos.length; idx++)
LoopHead(i) == IF i < Len(videos) THEN "fetchVideo" ELSE "return"

video == videos[idx + 1]

Logged(op) == Append(log, <<op, idx>>)

\* the branch chain: only the multiple-video branch is part of the patch text,
\* the other branches run code the patch leaves alone
Select ==
  /\ pc = "select"
  /\ strategy' = ChosenStrategy
  /\ pc' = IF ChosenStrategy = "MultiVideoAds" THEN LoopHead(0) ELSE "other"
  /\ UNCHANGED <<inputVars, media, idx, localVars, resultVars, metaVars, log, patchVars>>

\* await axios.get(video.url, ...)
FetchVideo ==
  /\ pc = "fetchVideo"
  /\ pc' = StepAfter(pc)
  /\ log' = Logged("fetchVideo")
  /\ UNCHANGED <<inputVars, media, strategy, idx, localVars, resultVars, metaVars, patchVars>>

\* await metaService.uploadVideo(...)
UploadVideo ==
  /\ pc = "uploadVideo"
  /\ metaVideos' = Append(metaVideos, video.id)
  /\ uploadedVideoId' = <<"vid", Len(metaVideos) + 1>>
  /\ pc' = StepAfter(pc)
  /\ log' = Logged("uploadVideo")
  /\ UNCHANGED <<inputVars, media, strategy, idx, thumbnailImage, thumbHash,
                 videoCreative, videoAd, resultVars, metaImages, metaCreatives,
                 metaAds, patchVars>>

\* await prisma.media.update({ where: { id: video.id }, data: { usedInMeta: true } })
MarkVideoUsed ==
  /\ pc = "markVideoUsed"
  /\ media' = [media EXCEPT ![video.id].usedInMeta = TRUE]
  /\ pc' = StepAfter(pc)
  /\ log' = Logged("markVideoUsed")
  /\ UNCHANGED <<inputVars, strategy, idx, localVars, resultVars, metaVars, patchVars>>

\* prisma.media.findUnique: the row, or null when no row has that id
findUnique(id) == IF id \in DOMAIN media THEN id ELSE Null

LinkedThumbnail(v) ==
  IF v.thumbnailMediaId # Null THEN findUnique(v.thumbnailMediaId) ELSE Null

\* mutant: the fallback ignores the index
FallbackThumbnail_first(i) == images[1]

\* images[idx] || images[0]
FallbackThumbnail(i) == IF i + 1 <= Len(images) THEN images[i + 1] ELSE images[1]

ResolvedThumbnail(v, i) ==
  IF LinkedThumbnail(v) = Null /\ Len(images) > 0
    THEN FallbackThumbnail(i)
    ELSE LinkedThumbnail(v)

MissingThumbnailError(v) == [kind |-> "MissingThumbnail", at |-> "resolveThumbnail", video |-> v.id]

\* mutant: the missing-thumbnail check is dropped
ThumbnailMissing_never(t) == FALSE

\* if (!thumbnailImage) throw new Error(`No thumbnail available for video ...`)
ThumbnailMissing(t) == t = Null

ResolveThumbnail ==
  /\ pc = "resolveThumbnail"
  /\ IF ThumbnailMissing(ResolvedThumbnail(video, idx))
       THEN /\ error' = MissingThumbnailError(video)
            /\ pc' = "failed"
            /\ UNCHANGED <<thumbnailImage, log>>
       ELSE /\ thumbnailImage' = ResolvedThumbnail(video, idx)
            /\ pc' = StepAfter(pc)
            /\ log' = Logged("resolveThumbnail")
            /\ UNCHANGED error
  /\ UNCHANGED <<inputVars, media, strategy, idx, uploadedVideoId, thumbHash,
                 videoCreative, videoAd, createdAds, creative, ad, metaVars, patchVars>>

\* await axios.get(thumbnailImage.url, ...)
FetchThumbnail ==
  /\ pc = "fetchThumbnail"
  /\ pc' = StepAfter(pc)
  /\ log' = Logged("fetchThumbnail")
  /\ UNCHANGED <<inputVars, media, strategy, idx, localVars, resultVars, metaVars, patchVars>>

\* await metaService.uploadImage(...)
UploadThumbnail ==
  /\ pc = "uploadThumbnail"
  /\ metaImages' = Append(metaImages, thumbnailImage)
  /\ thumbHash' = <<"hash", Len(metaImages) + 1>>
  /\ pc' = StepAfter(pc)
  /\ log' = Logged("uploadThumbnail")
  /\ UNCHANGED <<inputVars, media, strategy, idx, uploadedVideoId, thumbnailImage,
                 videoCreative, videoAd, resultVars, metaVideos, metaCreatives,
                 metaAds, patchVars>>

\* await prisma.media.update({ where: { id: thumbnailImage.id },
\*                             data: { usedInMeta: true, metaHash: thumbHash } })
MarkThumbnailUsed ==
  /\ pc = "markThumbnailUsed"
  /\ media' = [media EXCEPT ![thumbnailImage] = [usedInMeta |-> TRUE, metaHash |-> thumbHash]]
  /\ pc' = StepAfter(pc)
  /\ log' = Logged("markThumbnailUsed")
  /\ UNCHANGED <<inputVars, strategy, idx, localVars, resultVars, metaVars, patchVars>>

\* mutant: every creative gets the first uploaded thumbnail's hash
CreativeSpec_firstHash ==
  [video_id |-> uploadedVideoId, image_hash |-> <<"hash", 1>>, ordinal |-> idx + 1]

CreativeSpec == [video_id |-> uploadedVideoId, image_hash |-> thumbHash, ordinal |-> idx + 1]

\* await metaService.createAdCreative(...)
CreateAdCreative ==
  /\ pc = "createAdCreative"
  /\ metaCreatives' = Append(metaCreatives, CreativeSpec)
  /\ videoCreative' = <<"creative", Len(metaCreatives) + 1>>
  /\ pc' = StepAfter(pc)
  /\ log' = Logged("createAdCreative")
  /\ UNCHANGED <<inputVars, media, strategy, idx, uploadedVideoId, thumbnailImage,
                 thumbHash, videoAd, resultVars, metaVideos, metaImages, metaAds,
                 patchVars>>

AdSpec == [creative_id |-> videoCreative, ordinal |-> idx + 1, status |-> "PAUSED"]

\* await metaService.createAd(...)
CreateAd ==
  /\ pc = "createAd"
  /\ metaAds' = Append(metaAds, AdSpec)
  /\ videoAd' = <<"ad", Len(metaAds) + 1>>
  /\ pc' = StepAfter(pc)
  /\ log' = Logged("createAd")
  /\ UNCHANGED <<inputVars, media, strategy, idx, uploadedVideoId, thumbnailImage,
                 thumbHash, videoCreative, resultVars, metaVideos, metaImages,
                 metaCreatives, patchVars>>

CreatedAdEntry == [adId |-> videoAd, creativeId |-> videoCreative]

\* createdAds.push(...); the iteration's block ends, idx++
PushCreatedAd ==
  /\ pc = "push"
  /\ createdAds' = Append(createdAds, CreatedAdEntry)
  /\ idx' = idx + 1
  /\ pc' = LoopHead(idx + 1)
  /\ log' = Logged("push")
  /\ uploadedVideoId' = Null /\ thumbnailImage' = Null /\ thumbHash' = Null
  /\ videoCreative' = Null /\ videoAd' = Null
  /\ UNCHANGED <<inputVars, media, strategy, creative, ad, error, metaVars, patchVars>>

\* mutant: the first pair is returned
PrimaryEntry_first == createdAds[1]

PrimaryEntry == createdAds[Len(createdAds)]

\* creative = { id: createdAds[createdAds.length - 1].creativeId }; ad = ...
ReturnPrimary ==
  /\ pc = "return"
  /\ creative' = PrimaryEntry.creativeId
  /\ ad' = PrimaryEntry.adId
  /\ pc' = "done"
  /\ UNCHANGED <<inputVars, media, strategy, idx, localVars, createdAds, error,
                 metaVars, log, patchVars>>

\* the awaited calls: each may reject, and nothing in the loop catches it
AwaitSteps ==
  {"fetchVideo", "uploadVideo", "markVideoUsed", "resolveThumbnail",
   "fetchThumbnail", "uploadThumbnail", "markThumbnailUsed",
   "createAdCreative", "createAd"}

\* mutant: a failure empties the result list
CreatedAdsAfterThrow_rollback == <<>>

CreatedAdsAfterThrow == createdAds

Throw ==
  /\ pc \in AwaitSteps
  /\ pc = "resolveThumbnail" => video.thumbnailMediaId # Null
  /\ error' = [kind |-> "Rejected", at |-> pc, video |-> video.id]
  /\ pc' = "failed"
  /\ createdAds' = CreatedAdsAfterThrow
  /\ UNCHANGED <<inputVars, media, strategy, idx, localVars, creative, ad,
                 metaVars, log, patchVars>>

Next ==
  \/ Select
  \/ FetchVideo
  \/ UploadVideo
  \/ MarkVideoUsed
  \/ ResolveThumbnail
  \/ FetchThumbnail
  \/ UploadThumbnail
  \/ MarkThumbnailUsed
  \/ CreateAdCreative
  \/ CreateAd
  \/ PushCreatedAd
  \/ ReturnPrimary
  \/ Throw

Spec == Init /\ [][Next]_vars

(* ========================= the patch scripts =========================== *)
(* The target file is a sequence of text blocks.  A block is a run of      *)
(* lines that the six anchor strings either contain whole or not at all;   *)
(* line ends are kept apart in fileEol, since the scripts read with        *)
(* universal newlines and write \n as the platform's line separator.       *)

old_detection ==
  <<"hasMultipleImages", "useCarousel", "useMultipleAds = !isCBO && hasMultipleImages",
    "log useVideo hasMultipleImages", "log imageCount", "log isCBO useCarousel useMultipleAds">>

new_detection ==
  <<"hasMultipleImages", "hasMultipleVideos", "useCarousel",
    "useMultipleAds = !isCBO && (hasMultipleImages || hasMultipleVideos)",
    "log useVideo hasMultipleImages", "log hasMultipleVideos", "log imageCount",
    "log videoCount", "log isCBO useCarousel useMultipleAds">>

old_single_video == <<"if (useVideo) {", "VIDEO AD createAdCreative name">>

new_single_video == <<"if (useVideo && !hasMultipleVideos) {", "VIDEO AD createAdCreative name">>

old_section == <<"All ads created successfully (ABO mode)", "} else { SINGLE IMAGE AD">>

\* mutant: the new branch ends with the same success line as the image branch
new_section_sameSuccessLine ==
  <<"All ads created successfully (ABO mode)",
    "} else if (useMultipleAds && hasMultipleVideos) { ... }",
    "All ads created successfully (ABO mode)", "} else { SINGLE IMAGE AD">>

new_section ==
  <<"All ads created successfully (ABO mode)",
    "} else if (useMultipleAds && hasMultipleVideos) { ... All video ads created successfully (ABO mode)",
    "} else { SINGLE IMAGE AD">>

\* old in content
RECURSIVE Contains(_, _)
Contains(c, old) ==
  IF Len(c) < Len(old) THEN FALSE
  ELSE IF SubSeq(c, 1, Len(old)) = old THEN TRUE
  ELSE Contains(Tail(c), old)

\* content.count(old): the occurrences str.replace replaces, leftmost first,
\* none overlapping another
RECURSIVE Count(_, _)
Count(c, old) ==
  IF Len(c) < Len(old) THEN 0
  ELSE IF SubSeq(c, 1, Len(old)) = old
    THEN 1 + Count(SubSeq(c, Len(old) + 1, Len(c)), old)
  ELSE Count(Tail(c), old)

\* content.replace(old, new)
RECURSIVE Replace(_, _, _)
Replace(c, old, new) ==
  IF Len(c) < Len(old) THEN c
  ELSE IF SubSeq(c, 1, Len(old)) = old
    THEN new \o Replace(SubSeq(c, Len(old) + 1, Len(c)), old, new)
  ELSE <<Head(c)>> \o Replace(Tail(c), old, new)

\* if old in content: content = content.replace(old, new)
Substitute(c, old, new) == IF Contains(c, old) THEN Replace(c, old, new) ELSE c

\* what fix_abo_videos.py writes back for the content it read
Part1Content(c) ==
  Substitute(Substitute(c, old_detection, new_detection), old_single_video, new_single_video)

\* what fix_abo_videos_part2.py writes back, when it writes
Part2Content(c) == Replace(c, old_section, new_section)

Chunks ==
  {old_detection, new_detection, old_single_video, new_single_video, old_section,
   new_section, <<"other text">>, <<old_section[1]>>, <<old_section[2]>>,
   <<old_single_video[1]>>}

RECURSIVE Contents(_)
Contents(n) ==
  IF n = 0 THEN {<<>>}
  ELSE Contents(n - 1) \cup {c \o k : c \in Contents(n - 1), k \in Chunks}

RequestIdle ==
  /\ isCBO = FALSE /\ useVideo = FALSE /\ videos = <<>> /\ images = <<>>
  /\ uploadedImageHashes = [defined |-> FALSE, hashes |-> <<>>]
  /\ RequestStart

InitPatch ==
  /\ RequestIdle
  /\ linesep \in {"lf", "crlf"}
  /\ fileEol \in {"lf", "crlf"}
  /\ content \in Contents(MaxChunks)
  /\ orig = content
  /\ ran = {}
  /\ applied = [k \in {"detection", "single_video", "section"} |-> 0]

\* python fix_abo_videos.py: both substitutions, then the file is written
\* whether or not anything was found
RunPart1 ==
  /\ content' = Part1Content(content)
  /\ fileEol' = linesep
  /\ applied' =
       [applied EXCEPT
          !["detection"] = @ + Count(content, old_detection),
          !["single_video"] =
             @ + Count(Substitute(content, old_detection, new_detection), old_single_video)]
  /\ ran' = ran \cup {"part1"}
  /\ UNCHANGED <<requestVars, linesep, orig>>

\* python fix_abo_videos_part2.py: the file is written only when the anchor is found
RunPart2 ==
  /\ IF Contains(content, old_section)
       THEN /\ content' = Part2Content(content)
            /\ fileEol' = linesep
            /\ applied' = [applied EXCEPT !["section"] = @ + Count(content, old_section)]
       ELSE UNCHANGED <<content, fileEol, applied>>
  /\ ran' = ran \cup {"part2"}
  /\ UNCHANGED <<requestVars, linesep, orig>>

NextPatch ==
  \/ RunPart1
  \/ RunPart2

SpecPatch == InitPatch /\ [][NextPatch]_vars

(* ============================== claims ================================= *)
Strategies == {"SingleImage", "SingleVideo", "Carousel", "MultiImageAds", "MultiVideoAds"}

Selected == pc # "select"

\* the branches whose condition holds; the final else always does
C1_BranchesHolding ==
  {"SingleImage"}
    \cup (IF SingleVideoBranch THEN {"SingleVideo"} ELSE {})
    \cup (IF CarouselBranch THEN {"Carousel"} ELSE {})
    \cup (IF MultiImageBranch THEN {"MultiImageAds"} ELSE {})
    \cup (IF MultiVideoBranch THEN {"MultiVideoAds"} ELSE {})

\* C1: once the selector has run, the strategy is one of the five variants
\* and at most one of the four conditional branches holds (exactly one variant);
\* Carousel is chosen only when isCBO is true, and MultiImageAds or
\* MultiVideoAds only when isCBO is false.
C1_OneVariantPerBudgetMode ==
  Selected =>
    /\ strategy \in Strategies
    /\ Cardinality({b \in C1_BranchesHolding : b # "SingleImage"}) <= 1
    /\ strategy \in C1_BranchesHolding
    /\ strategy = "Carousel" => isCBO
    /\ strategy \in {"MultiImageAds", "MultiVideoAds"} => ~isCBO

C1_Witness ==
  /\ Selected /\ strategy = "MultiVideoAds" /\ ~isCBO /\ Len(videos) = MaxVideos

\* C2: the strategy chosen by the branch chain is the first match of the
\* priority order stated over isCBO, useVideo, count(images), count(videos):
\* SingleVideo, Carousel, MultiImageAds, MultiVideoAds, else SingleImage.
C2_PriorityOrder ==
  IF useVideo /\ Len(videos) <= 1 THEN "SingleVideo"
  ELSE IF isCBO /\ ~useVideo /\ Len(images) > 1 THEN "Carousel"
  ELSE IF ~isCBO /\ ~useVideo /\ Len(images) > 1 THEN "MultiImageAds"
  ELSE IF ~isCBO /\ useVideo /\ Len(videos) > 1 THEN "MultiVideoAds"
  ELSE "SingleImage"

C2_StrategyIsFirstMatch ==
  Selected =>
    /\ strategy = C2_PriorityOrder
    /\ (~useVideo /\ Len(images) <= 1) => strategy = "SingleImage"
    /\ (isCBO /\ useVideo /\ Len(videos) > 1) => strategy = "SingleImage"

C2_Witness ==
  /\ Selected /\ isCBO /\ useVideo /\ Len(videos) > 1 /\ strategy = "SingleImage"

(* the platform objects behind one entry of createdAds *)
EntryCreative(e) == metaCreatives[e.creativeId[2]]
EntryAd(e) == metaAds[e.adId[2]]
EntryVideo(e) == metaVideos[EntryCreative(e).video_id[2]]
EntryThumbnail(e) == metaImages[EntryCreative(e).image_hash[2]]

MultiVideoInput == ~isCBO /\ useVideo /\ Len(videos) > 1

EntriesInInputOrder ==
  \A i \in 1..Len(createdAds) :
    /\ EntryAd(createdAds[i]).creative_id = createdAds[i].creativeId
    /\ EntryVideo(createdAds[i]) = videos[i].id
    /\ EntryThumbnail(createdAds[i]) = ResolvedThumbnail(videos[i], i - 1)

AfterResolve ==
  {"fetchThumbnail", "uploadThumbnail", "markThumbnailUsed", "createAdCreative",
   "createAd", "push"}

C4_HasLinkedThumbnail(v) == v.thumbnailMediaId \in DOMAIN media

C4_Expected(v, i) ==
  IF C4_HasLinkedThumbnail(v) THEN v.thumbnailMediaId
  ELSE IF i + 1 <= Len(images) THEN images[i + 1]
  ELSE IF Len(images) > 0 THEN images[1]
  ELSE Null

\* C4: the thumbnail resolved for the video at index idx is its linked
\* thumbnail when it has one, else images[idx] when that exists, else
\* images[0] when images is non-empty; with no linked thumbnail and no images
\* the loop fails with the missing-thumbnail error naming that video.
C4_ThumbnailResolution ==
  /\ pc \in AfterResolve =>
       /\ thumbnailImage = C4_Expected(video, idx)
       /\ thumbnailImage # Null
  /\ (pc = "failed" /\ error.kind = "MissingThumbnail") =>
       /\ C4_Expected(video, idx) = Null
       /\ error.video = video.id
  /\ (pc = "failed" /\ error.at = "resolveThumbnail" /\ C4_Expected(video, idx) = Null
        /\ video.thumbnailMediaId = Null) =>
       error.kind = "MissingThumbnail"

C4_Witness ==
  /\ pc = "fetchThumbnail" /\ ~C4_HasLinkedThumbnail(video)
  /\ Len(images) > 0 /\ idx + 1 > Len(images) /\ thumbnailImage = images[1]

Failed == pc = "failed"

MissingThumbnailFailure == pc = "failed" /\ error.kind = "MissingThumbnail"

\* C5: a failure while processing video k aborts the loop: nothing has been
\* done for a video of greater index and nothing is done afterwards, and the
\* ads created for videos 0..k-1 stay in the result list and on the platform
\* (no rollback, no deletion).
C5_AbortKeepsCreatedAds ==
  /\ [](Failed =>
          /\ error.video = videos[idx + 1].id
          /\ \A k \in 1..Len(log) : log[k][2] <= idx
          /\ Len(metaVideos) <= idx + 1
          /\ Len(createdAds) = idx
          /\ Len(metaAds) = idx
          /\ EntriesInInputOrder)
  /\ [][/\ ~Failed
        /\ Failed' => /\ createdAds' = createdAds
                      /\ metaAds' = metaAds
                      /\ metaCreatives' = metaCreatives
                      /\ media' = media]_vars

C5_Witness ==
  /\ MissingThumbnailFailure /\ Len(videos) = 3 /\ images = <<>>
  /\ idx = 1 /\ Len(createdAds) = 1 /\ Len(metaAds) = 1
  /\ videos[1].thumbnailMediaId = ThumbId(1)
  /\ videos[2].thumbnailMediaId = Null
  /\ videos[3].thumbnailMediaId = ThumbId(3)

NoThumbnailAvailable == LinkedThumbnail(video) = Null /\ Len(images) = 0

\* C6: when the video has no linked thumbnail and there is no fallback image,
\* the step ends the request with the missing-thumbnail error (unless the
\* lookup of a linked id itself rejected); for that video no thumbnail is
\* uploaded and no creative or ad is created, and the failed request takes no
\* further step (no retry).
C6_MissingThumbnailIsTerminal ==
  /\ [](MissingThumbnailFailure =>
          /\ \A k \in 1..Len(log) :
               log[k][2] = idx => log[k][1] \in {"fetchVideo", "uploadVideo", "markVideoUsed"}
          /\ Len(metaImages) = idx
          /\ Len(metaCreatives) = idx
          /\ Len(metaAds) = idx
          /\ thumbnailImage = Null /\ thumbHash = Null
          /\ videoCreative = Null /\ videoAd = Null)
  /\ [][/\ (pc = "resolveThumbnail" /\ NoThumbnailAvailable) =>
             /\ pc' = "failed"
             /\ error'.kind = "MissingThumbnail" \/ video.thumbnailMediaId # Null
             /\ error'.video = video.id
        /\ MissingThumbnailFailure => FALSE]_vars

C6_Witness ==
  /\ MissingThumbnailFailure /\ idx = 0 /\ metaImages = <<>> /\ Len(metaVideos) = 1

C7_Order ==
  <<"uploadVideo", "markVideoUsed", "resolveThumbnail", "uploadThumbnail",
    "markThumbnailUsed", "createAdCreative", "createAd", "push">>

C7_IsListed(e) == \E j \in 1..Len(C7_Order) : C7_Order[j] = e[1]

C7_Operations == SelectSeq(log, C7_IsListed)

\* C7: the operations of the loop happen strictly one video after the other
\* in array order: upload video, mark video used, resolve thumbnail, upload
\* thumbnail, mark thumbnail used, create creative, create ad, append, all for
\* video i before the first of them for video i+1.
C7_StrictlySequential ==
  /\ \A k \in 1..Len(C7_Operations) :
       C7_Operations[k] =
         <<C7_Order[((k - 1) % Len(C7_Order)) + 1], (k - 1) \div Len(C7_Order)>>
  /\ \A k \in 1..Len(metaVideos) : metaVideos[k] = videos[k].id
  /\ Len(metaVideos) \in {idx, idx + 1}
  /\ Len(metaImages) \in {idx, idx + 1}
  /\ Len(metaAds) \in {idx, idx + 1}

C7_Witness ==
  /\ pc = "uploadVideo" /\ idx = 2 /\ Len(C7_Operations) = 2 * Len(C7_Order)

\* C8: after a run of the loop that completes without failure the returned
\* creative and ad are those of the last pair of the result list, which are
\* the creative and ad created for the last video of the input.
C8_PrimaryIsLast ==
  (pc = "done" /\ strategy = "MultiVideoAds") =>
    /\ creative = createdAds[Len(createdAds)].creativeId
    /\ ad = createdAds[Len(createdAds)].adId
    /\ metaVideos[metaCreatives[creative[2]].video_id[2]] = videos[Len(videos)].id
    /\ metaAds[ad[2]].creative_id = creative
    /\ metaAds[ad[2]].ordinal = Len(videos)

C8_Witness ==
  /\ pc = "done" /\ Len(videos) = 3 /\ creative = <<"creative", 3>> /\ ad = <<"ad", 3>>

InIteration == pc \in {"resolveThumbnail"} \cup AfterResolve

\* C9: a video is uploaded and its row marked used before its thumbnail is
\* resolved; so when the loop fails with a missing thumbnail for video k, that
\* video is uploaded and marked used although it has no creative and no ad;
\* and every entry of the result list belongs to a video marked used whose
\* thumbnail row is marked used and carries a recorded hash.
C9_VideoUsedBeforeThumbnail ==
  /\ (InIteration \/ MissingThumbnailFailure) =>
       /\ Len(metaVideos) = idx + 1
       /\ metaVideos[idx + 1] = video.id
       /\ media[video.id].usedInMeta
  /\ MissingThumbnailFailure =>
       /\ Len(metaCreatives) = idx
       /\ Len(metaAds) = idx
       /\ Len(createdAds) = idx
  /\ \A i \in 1..Len(createdAds) :
       /\ media[EntryVideo(createdAds[i])].usedInMeta
       /\ EntryVideo(createdAds[i]) = videos[i].id
       /\ media[EntryThumbnail(createdAds[i])].usedInMeta
       /\ media[EntryThumbnail(createdAds[i])].metaHash # Null

C9_Witness ==
  /\ MissingThumbnailFailure /\ idx = 1 /\ media[videos[2].id].usedInMeta
  /\ Len(createdAds) = 1 /\ Len(metaCreatives) = 1

C10_Expected ==
  LET c1 == IF "part1" \in ran THEN Part1Content(orig) ELSE orig
  IN  IF "part2" \in ran THEN Part2Content(c1) ELSE c1

\* C10: no old anchor occurs in its own replacement; running a script again
\* changes nothing (the content is a fixed point of the script that last ran,
\* and a run of a script that has run before leaves content and line ends as
\* they are); each substitution is applied at most once per occurrence of its
\* anchor in the original content; and the content after any runs depends only
\* on which scripts have run, not on their order.
C10_IdempotentAndOrderFree ==
  /\ [](/\ ~Contains(new_detection, old_detection)
        /\ ~Contains(new_single_video, old_single_video)
        /\ ~Contains(new_section, old_section)
        /\ content = C10_Expected
        /\ "part1" \in ran => fileEol = linesep
        /\ "part1" \in ran => Part1Content(content) = content
        /\ "part2" \in ran => Part2Content(content) = content
        /\ Part1Content(Part1Content(content)) = Part1Content(content)
        /\ Part2Content(Part2Content(content)) = Part2Content(content)
        /\ Part1Content(Part2Content(orig)) = Part2Content(Part1Content(orig))
        /\ applied["detection"] <= Count(orig, old_detection)
        /\ applied["single_video"] <= Count(orig, old_single_video)
        /\ applied["section"] <= Count(orig, old_section))
  /\ [][ran' = ran => (content' = content /\ fileEol' = fileEol /\ applied' = applied)]_vars

C10_Witness ==
  /\ ran = {"part1", "part2"}
  /\ Count(orig, old_section) = 1 /\ Count(orig, old_detection) = 1
  /\ Count(orig, old_single_video) = 1
  /\ applied = [k \in {"detection", "single_video", "section"} |-> 1]
  /\ content # orig

====
